---- MODULE Spec2Model ----
(***************************************************************************)
(* The voice session engine of the kiosk assistant (the App component):    *)
(* playAudio and its playback cursor, the text chat flow                   *)
(* (handleSendMessage), and the live session (startLiveSession with its    *)
(* onopen / onmessage / onclose / onerror callbacks, the capture callback, *)
(* stopLiveSession).                                                       *)
(*                                                                         *)
(* Time is counted in units of 0.1 s of the output AudioContext's clock,   *)
(* so the 0.1 s of the playback-ended test is Eps = 1.                     *)
(*                                                                         *)
(* The JavaScript event loop runs one callback at a time; a continuation   *)
(* behind an await on an already settled promise (a microtask) runs before *)
(* any other callback.  playTasks holds the playAudio calls in flight:     *)
(* phase "resume" waits for ctx.resume() (a real wait), phase "decode" is  *)
(* the microtask behind `await decodeAudioData`, and every other action    *)
(* waits until no "decode" task is left.  (decodeAudioData lives in         *)
(* services/audioUtils; it decodes synchronously, so the promise it        *)
(* returns is settled when playAudio awaits it.)                           *)
(*                                                                         *)
(* The page (AppMode) is not a variable: the header lets the user move     *)
(* between the pages at any time without touching the engine, so the       *)
(* page-dependent buttons are always within reach.  What the engine keeps  *)
(* of the page is the `mode` each playAudio closure was created with: a    *)
(* call made by the live session has mode = LIVE_VOICE, a call made by     *)
(* handleSendMessage has mode = TEXT_CHAT (the `live` field).              *)
(***************************************************************************)
EXTENDS Integers, Sequences, FiniteSets, TLC

\* ---- bounds of the model ----
\* Spec: the whole engine (text chat, live session, capture, playback)
MaxTime == 2
MaxDur == 2
MaxSources == 2
MaxSessions == 1
MaxFrames == 1
\* SpecCapture: the live session's lifecycle and capture path alone
MaxCaptureSessions == 2
MaxCaptureFrames == 2
\* SpecPlay: one live session and its playback, with a longer queue
MaxPlayTime == 2
MaxPlaySources == 3
\* SpecFair: text chat, one live session and playback, under fairness; the
\* clock runs to MaxFairTime and, beyond it, until every source has played out
MaxFairTime == 1
\* SpecEncode: the capture callback with the samples of its frames; a sample
\* is x / SampleDen for an integer x in -SampleDen..SampleDen
MaxEncodeFrames == 1
FrameLen == 2
SampleDen == 10

\* the 0.1 s of `ctx.currentTime >= nextStartTimeRef.current - 0.1`, in clock units
Eps == 1

VARIABLES
    avatarState,       \* AvatarState: "idle" | "listening" | "thinking" | "speaking"
    isConnected,       \* useState isConnected
    isLoading,         \* useState isLoading
    lastMessage,       \* the last entry of useState messages: "welcome" | "user" |
                       \* "model" | "fallback"
    ctxState,          \* audioContextRef.current: "none" | "suspended" | "running"
    now,               \* audioContextRef.current.currentTime
    nextStartTime,     \* nextStartTimeRef.current (the playback cursor)
    sources,           \* every AudioBufferSourceNode started, in schedule order
    audioSourceRef,    \* audioSourceRef.current: index into sources, 0 = null
    playTasks,         \* playAudio calls in flight, in call order
    textPc,            \* handleSendMessage: "none" | "gen" | "tts" | "play"
    sessions,          \* every startLiveSession call so far, in call order
    streamRef,         \* streamRef.current: session whose stream it holds, 0 = null
    inputProcessorRef, \* inputProcessorRef.current: session whose processor, 0 = null
    liveSessionRef,    \* liveSessionRef.current: session whose promise, 0 = null
    captured,          \* number of frames onaudioprocess has been called with
    sent,              \* sendRealtimeInput calls so far, in call order
    closedSince,       \* history: stopLiveSession returned, no open/submit since
    justStopped        \* history: the last operation was a stopLiveSession call

vars == <<avatarState, isConnected, isLoading, lastMessage, ctxState, now, nextStartTime,
          sources, audioSourceRef, playTasks, textPc, sessions, streamRef,
          inputProcessorRef, liveSessionRef, captured, sent, closedSince,
          justStopped>>

\* the program's state without the two history variables
progVars == <<avatarState, isConnected, isLoading, lastMessage, ctxState, now, nextStartTime,
              sources, audioSourceRef, playTasks, textPc, sessions, streamRef,
              inputProcessorRef, liveSessionRef, captured, sent>>

Max(a, b) == IF a >= b THEN a ELSE b

Durations == 1..MaxDur

SessIds == 1..Len(sessions)

\* ---- pure pieces of the code ----

\* (mutant) the source is started at once, whatever the cursor says
ScheduleStartAtOnce(cursor, t) == t

\* playAudio: const startTime = Math.max(nextStartTimeRef.current, now)
ScheduleStart(cursor, t) == Max(cursor, t)

\* playAudio: nextStartTimeRef.current = startTime + audioBuffer.duration
CursorAfter(start, dur) == start + dur

\* (mutant) the playback-ended handler reverts the state whatever is queued
EndedRevertsAlways(t, cursor) == TRUE

\* (mutant) the playback-ended handler never reverts the state
EndedRevertsNever(t, cursor) == FALSE

\* source.onended: if (ctx.currentTime >= nextStartTimeRef.current - 0.1)
EndedReverts(t, cursor) == t >= cursor - Eps

\* (mutant) the playback-ended handler reverts to IDLE in every mode
RevertStateAlwaysIdle(live) == "idle"

\* source.onended: mode === AppMode.LIVE_VOICE ? LISTENING : IDLE, with the
\* `mode` of the render whose playAudio the caller closed over
RevertState(live) == IF live THEN "listening" ELSE "idle"

\* (mutant) the interruption leaves the cursor where it was
InterruptCursorKept(cursor, t) == cursor

\* onmessage, interruption: nextStartTimeRef.current = audioContextRef.current.currentTime
\* (a live session always has an output context: startLiveSession creates it)
InterruptCursor(cursor, t) == t

\* onaudioprocess: pcmData[i] = inputData[i] * 32768
PcmScale == 32768

Samples == (0 - SampleDen)..SampleDen

\* the frames onaudioprocess can be called with, and the silent one
Frames == [1..FrameLen -> Samples]

SilentFrames == [1..FrameLen -> {0}]

\* the store into an Int16Array converts the number as ToInt16 does: the
\* fraction is cut off (towards zero) and the integer is taken modulo 2^16
\* into -2^15 .. 2^15 - 1
TruncDiv(a, b) == IF a >= 0 THEN a \div b ELSE 0 - ((0 - a) \div b)

ToInt16(v) == ((v + 32768) % 65536) - 32768

EncodeSample(x) == ToInt16(TruncDiv(x * PcmScale, SampleDen))

\* the loop over inputData
EncodeFrame(inputData) == [i \in 1..Len(inputData) |-> EncodeSample(inputData[i])]

\* a source is finished once its buffer has played out or it was stopped
Finished(src) == src.stopped \/ now >= src.start + src.dur

\* no microtask is waiting: a callback of the event loop may run
NoMicrotask == \A i \in 1..Len(playTasks) : playTasks[i].phase # "decode"

\* room for one more playAudio call within the model's bound
RoomToPlayUpTo(limit) == Len(sources) + Len(playTasks) < limit

RoomToPlay == RoomToPlayUpTo(MaxSources)

\* playAudio up to its first await: create the context when there is none
\* (`susp` is whether the browser creates it suspended), then either wait for
\* ctx.resume() or go on to the decode microtask
CtxAfterPlayCall(susp) ==
    IF ctxState = "none" THEN (IF susp THEN "suspended" ELSE "running") ELSE ctxState

NewTask(dur, live, susp) ==
    [phase |-> IF CtxAfterPlayCall(susp) = "suspended" THEN "resume" ELSE "decode",
     dur |-> dur, live |-> live]

Init ==
    /\ avatarState = "idle"
    /\ isConnected = FALSE
    /\ isLoading = FALSE
    /\ lastMessage = "welcome"
    /\ ctxState = "none"
    /\ now = 0
    /\ nextStartTime = 0
    /\ sources = <<>>
    /\ audioSourceRef = 0
    /\ playTasks = <<>>
    /\ textPc = "none"
    /\ sessions = <<>>
    /\ streamRef = 0
    /\ inputProcessorRef = 0
    /\ liveSessionRef = 0
    /\ captured = 0
    /\ sent = <<>>
    /\ closedSince = FALSE
    /\ justStopped = FALSE

\* ---- the output clock ----

\* ctx.currentTime advances while the context runs
TickUpTo(limit) ==
    /\ NoMicrotask
    /\ ctxState = "running"
    /\ now < limit
    /\ now' = now + 1
    /\ UNCHANGED <<lastMessage, avatarState, isConnected, isLoading, ctxState, nextStartTime,
                   sources, audioSourceRef, playTasks, textPc, sessions, streamRef,
                   inputProcessorRef, liveSessionRef, captured, sent, closedSince,
                   justStopped>>

\* ---- playAudio ----

\* (mutant) the continuation of the latest call runs first
NextDecodeLast == CHOOSE i \in 1..Len(playTasks) :
                     /\ playTasks[i].phase = "decode"
                     /\ \A j \in (i + 1)..Len(playTasks) : playTasks[j].phase # "decode"

\* index of the playAudio call whose decode microtask runs next: continuations
\* run in the order in which their promises settled, which is the call order
NextDecode == CHOOSE i \in 1..Len(playTasks) :
                 /\ playTasks[i].phase = "decode"
                 /\ \A j \in 1..(i - 1) : playTasks[j].phase # "decode"

RemoveAt(seq, i) == SubSeq(seq, 1, i - 1) \o SubSeq(seq, i + 1, Len(seq))

\* playAudio after `await decodeAudioData`: start the source at
\* max(cursor, now), advance the cursor, set SPEAKING, remember the source;
\* for the call awaited by handleSendMessage, its `finally` follows
PlayAudioSchedule ==
    /\ ~NoMicrotask
    /\ LET i == NextDecode
           t == playTasks[i]
           start == ScheduleStart(nextStartTime, now)
       IN /\ sources' = Append(sources, [start |-> start, dur |-> t.dur, live |-> t.live,
                                         stopped |-> FALSE, ended |-> FALSE])
          /\ nextStartTime' = CursorAfter(start, t.dur)
          /\ avatarState' = "speaking"
          /\ audioSourceRef' = Len(sources) + 1
          /\ playTasks' = RemoveAt(playTasks, i)
          /\ isLoading' = IF t.live THEN isLoading ELSE FALSE
          /\ textPc' = IF t.live THEN textPc ELSE "none"
    /\ justStopped' = FALSE
    /\ UNCHANGED <<lastMessage, isConnected, ctxState, now, sessions, streamRef,
                   inputProcessorRef, liveSessionRef, captured, sent, closedSince>>

\* playAudio's catch: decoding (or starting the source) throws; the error is
\* logged and the call returns without a source; for the call awaited by
\* handleSendMessage, its `finally` follows
PlayAudioFails ==
    /\ ~NoMicrotask
    /\ LET i == NextDecode
           t == playTasks[i]
       IN /\ playTasks' = RemoveAt(playTasks, i)
          /\ isLoading' = IF t.live THEN isLoading ELSE FALSE
          /\ textPc' = IF t.live THEN textPc ELSE "none"
    /\ justStopped' = FALSE
    /\ UNCHANGED <<lastMessage, avatarState, isConnected, ctxState, now, nextStartTime,
                   sources, audioSourceRef, sessions, streamRef, inputProcessorRef,
                   liveSessionRef, captured, sent, closedSince>>

\* ctx.resume() settles: the context runs and every playAudio call waiting on
\* it goes on, in call order
ResumeDone ==
    /\ NoMicrotask
    /\ ctxState = "suspended"
    /\ \E i \in 1..Len(playTasks) : playTasks[i].phase = "resume"
    /\ ctxState' = "running"
    /\ playTasks' = [i \in 1..Len(playTasks) |-> [playTasks[i] EXCEPT !.phase = "decode"]]
    /\ justStopped' = FALSE
    /\ UNCHANGED <<lastMessage, avatarState, isConnected, isLoading, now, nextStartTime,
                   sources, audioSourceRef, textPc, sessions, streamRef,
                   inputProcessorRef, liveSessionRef, captured, sent, closedSince>>

\* source.onended of the i-th source: set LISTENING / IDLE unless more audio is
\* queued within Eps
OnEnded(i) ==
    /\ NoMicrotask
    /\ ~sources[i].ended
    /\ Finished(sources[i])
    /\ sources' = [sources EXCEPT ![i].ended = TRUE]
    /\ avatarState' = IF EndedReverts(now, nextStartTime)
                      THEN RevertState(sources[i].live)
                      ELSE avatarState
    /\ justStopped' = FALSE
    /\ UNCHANGED <<lastMessage, isConnected, isLoading, ctxState, now, nextStartTime,
                   audioSourceRef, playTasks, textPc, sessions, streamRef,
                   inputProcessorRef, liveSessionRef, captured, sent, closedSince>>

\* ---- text chat: handleSendMessage ----

\* up to the first await: the user's message is appended, setIsLoading(true),
\* setAvatarState(THINKING).  The
\* input is not empty and the API client exists; the send button and the input
\* field are disabled while isLoading.
SubmitText ==
    /\ NoMicrotask
    /\ ~isLoading
    /\ textPc = "none"
    /\ RoomToPlay
    /\ lastMessage' = "user"
    /\ isLoading' = TRUE
    /\ avatarState' = "thinking"
    /\ textPc' = "gen"
    /\ closedSince' = FALSE
    /\ justStopped' = FALSE
    /\ UNCHANGED <<isConnected, ctxState, now, nextStartTime, sources,
                   audioSourceRef, playTasks, sessions, streamRef, inputProcessorRef,
                   liveSessionRef, captured, sent>>

\* the text generation call returns: the model message is appended, TTS is called
GenDone ==
    /\ NoMicrotask
    /\ textPc = "gen"
    /\ lastMessage' = "model"
    /\ textPc' = "tts"
    /\ justStopped' = FALSE
    /\ UNCHANGED <<avatarState, isConnected, isLoading, ctxState, now,
                   nextStartTime, sources, audioSourceRef, playTasks, sessions,
                   streamRef, inputProcessorRef, liveSessionRef, captured, sent,
                   closedSince>>

\* (mutant) catch leaves the state as it is
FailureStateKept(state) == state

\* catch: setAvatarState(AvatarState.IDLE)
FailureState(state) == "idle"

\* either call throws: catch appends the fallback message and sets IDLE,
\* finally clears the loading flag
TextFail ==
    /\ NoMicrotask
    /\ textPc \in {"gen", "tts"}
    /\ lastMessage' = "fallback"
    /\ avatarState' = FailureState(avatarState)
    /\ isLoading' = FALSE
    /\ textPc' = "none"
    /\ justStopped' = FALSE
    /\ UNCHANGED <<isConnected, ctxState, now, nextStartTime, sources,
                   audioSourceRef, playTasks, sessions, streamRef, inputProcessorRef,
                   liveSessionRef, captured, sent, closedSince>>

\* the TTS call returns: setAvatarState(IDLE); with audio data, reset the cursor
\* to the clock (when a context exists) and call playAudio; without, finish
TtsDone(audio, dur, susp) ==
    /\ NoMicrotask
    /\ textPc = "tts"
    /\ audio => RoomToPlay
    /\ avatarState' = "idle"
    /\ IF audio
       THEN /\ nextStartTime' = IF ctxState # "none" THEN now ELSE nextStartTime
            /\ ctxState' = CtxAfterPlayCall(susp)
            /\ playTasks' = Append(playTasks, NewTask(dur, FALSE, susp))
            /\ textPc' = "play"
            /\ UNCHANGED isLoading
       ELSE /\ isLoading' = FALSE
            /\ textPc' = "none"
            /\ UNCHANGED <<nextStartTime, ctxState, playTasks>>
    /\ justStopped' = FALSE
    /\ UNCHANGED <<lastMessage, isConnected, now, sources, audioSourceRef, sessions,
                   streamRef, inputProcessorRef, liveSessionRef, captured, sent,
                   closedSince>>

\* ---- live session: stopLiveSession ----

\* stopLiveSession: setIsConnected(false), setAvatarState(IDLE), stop the tracks
\* of the stream streamRef holds and drop it, disconnect the processor
\* inputProcessorRef holds and drop it.  Nothing else is touched: the
\* connection is not closed and no source is stopped.
StoppedSession(s) ==
    [sessions[s] EXCEPT !.trackLive = IF streamRef = s THEN FALSE ELSE @,
                        !.procConnected = IF inputProcessorRef = s THEN FALSE ELSE @,
                        !.stopCalled = TRUE]

stopLiveSession ==
    /\ isConnected' = FALSE
    /\ avatarState' = "idle"
    /\ streamRef' = 0
    /\ inputProcessorRef' = 0
    /\ sessions' = [s \in SessIds |-> StoppedSession(s)]
    /\ closedSince' = TRUE
    /\ justStopped' = TRUE

\* the stop button of the live page (shown while isConnected) or the
\* return-home button of the header (shown on every page but the landing page)
StopLive ==
    /\ NoMicrotask
    /\ stopLiveSession
    /\ UNCHANGED <<lastMessage, isLoading, ctxState, now, nextStartTime, sources,
                   audioSourceRef, playTasks, textPc, liveSessionRef, captured, sent>>

\* ---- live session: startLiveSession ----

NewSession == [pc |-> "mic", resolved |-> FALSE, trackLive |-> FALSE,
               procConnected |-> FALSE, stopCalled |-> FALSE, pending |-> <<>>]

\* the start button of the live page (shown while not isConnected), up to
\* `await getUserMedia`: setIsConnected(true), setAvatarState(LISTENING), create
\* the output context when there is none
StartLiveUpTo(limit, susp) ==
    /\ NoMicrotask
    /\ ~isConnected
    /\ Len(sessions) < limit
    /\ isConnected' = TRUE
    /\ avatarState' = "listening"
    /\ ctxState' = CtxAfterPlayCall(susp)
    /\ sessions' = Append(sessions, NewSession)
    /\ closedSince' = FALSE
    /\ justStopped' = FALSE
    /\ UNCHANGED <<lastMessage, isLoading, now, nextStartTime, sources, audioSourceRef,
                   playTasks, textPc, streamRef, inputProcessorRef, liveSessionRef,
                   captured, sent>>

\* getUserMedia resolves: keep the stream and the processor in their refs, call
\* live.connect and keep its promise in liveSessionRef
MicGranted(s) ==
    /\ NoMicrotask
    /\ sessions[s].pc = "mic"
    /\ streamRef' = s
    /\ inputProcessorRef' = s
    /\ liveSessionRef' = s
    /\ sessions' = [sessions EXCEPT ![s].pc = "connecting", ![s].trackLive = TRUE]
    /\ justStopped' = FALSE
    /\ UNCHANGED <<lastMessage, avatarState, isConnected, isLoading, ctxState, now,
                   nextStartTime, sources, audioSourceRef, playTasks, textPc,
                   captured, sent, closedSince>>

\* getUserMedia rejects: catch sets the error text and setIsConnected(false)
MicDenied(s) ==
    /\ NoMicrotask
    /\ sessions[s].pc = "mic"
    /\ isConnected' = FALSE
    /\ sessions' = [sessions EXCEPT ![s].pc = "failed"]
    /\ justStopped' = FALSE
    /\ UNCHANGED <<lastMessage, avatarState, isLoading, ctxState, now, nextStartTime,
                   sources, audioSourceRef, playTasks, textPc, streamRef,
                   inputProcessorRef, liveSessionRef, captured, sent, closedSince>>

\* getUserMedia resolves and the connect call throws: the stream and the
\* processor are already in their refs when catch runs setIsConnected(false)
ConnectThrows(s) ==
    /\ NoMicrotask
    /\ sessions[s].pc = "mic"
    /\ streamRef' = s
    /\ inputProcessorRef' = s
    /\ isConnected' = FALSE
    /\ sessions' = [sessions EXCEPT ![s].pc = "failed", ![s].trackLive = TRUE]
    /\ justStopped' = FALSE
    /\ UNCHANGED <<lastMessage, avatarState, isLoading, ctxState, now, nextStartTime,
                   sources, audioSourceRef, playTasks, textPc, liveSessionRef,
                   captured, sent, closedSince>>

\* ---- live session: callbacks ----

\* onopen: register onaudioprocess, connect source -> processor -> destination
OnOpen(s) ==
    /\ NoMicrotask
    /\ sessions[s].pc = "connecting"
    /\ sessions' = [sessions EXCEPT ![s].pc = "open", ![s].procConnected = TRUE]
    /\ justStopped' = FALSE
    /\ UNCHANGED <<lastMessage, avatarState, isConnected, isLoading, ctxState, now,
                   nextStartTime, sources, audioSourceRef, playTasks, textPc,
                   streamRef, inputProcessorRef, liveSessionRef, captured, sent,
                   closedSince>>

Tagged(s, frames) ==
    [i \in 1..Len(frames) |-> [sess |-> s, frame |-> frames[i].frame, data |-> frames[i].data]]

\* the promise of live.connect resolves: the `.then` callbacks registered so
\* far run in registration order, each calling sendRealtimeInput
SessionResolve(s) ==
    /\ NoMicrotask
    /\ sessions[s].pc = "open"
    /\ ~sessions[s].resolved
    /\ sent' = sent \o Tagged(s, sessions[s].pending)
    /\ sessions' = [sessions EXCEPT ![s].resolved = TRUE, ![s].pending = <<>>]
    /\ justStopped' = FALSE
    /\ UNCHANGED <<lastMessage, avatarState, isConnected, isLoading, ctxState, now,
                   nextStartTime, sources, audioSourceRef, playTasks, textPc,
                   streamRef, inputProcessorRef, liveSessionRef, captured, closedSince>>

\* processor.onaudioprocess with the frame inputData (the captured + 1st frame
\* handed to a capture callback): encode it, then
\* sessionPromise.then(session => session.sendRealtimeInput(...)), which runs
\* at once when the promise has resolved and waits for it otherwise
CaptureFrame(limit, s, inputData) ==
    /\ NoMicrotask
    /\ sessions[s].procConnected
    /\ captured < limit
    /\ captured' = captured + 1
    /\ LET pcmData == EncodeFrame(inputData)
       IN IF sessions[s].resolved
          THEN /\ sent' = Append(sent, [sess |-> s, frame |-> captured + 1, data |-> pcmData])
               /\ UNCHANGED sessions
          ELSE /\ sessions' = [sessions EXCEPT
                                  ![s].pending = Append(@, [frame |-> captured + 1, data |-> pcmData])]
               /\ UNCHANGED sent
    /\ justStopped' = FALSE
    /\ UNCHANGED <<lastMessage, avatarState, isConnected, isLoading, ctxState, now,
                   nextStartTime, sources, audioSourceRef, playTasks, textPc,
                   streamRef, inputProcessorRef, liveSessionRef, closedSince>>

\* the capture callback where the frames are followed and not their contents:
\* every frame is silence
CaptureUpTo(limit, s) == \E inputData \in SilentFrames : CaptureFrame(limit, s, inputData)

\* audioSourceRef.current.stop(): cuts the source off unless it has played out
StopSource(srcs, ref) ==
    IF ref = 0 \/ now >= srcs[ref].start + srcs[ref].dur
    THEN srcs
    ELSE [srcs EXCEPT ![ref].stopped = TRUE]

\* onmessage: with audio data call playAudio (not awaited); then, with
\* `interrupted`, stop the source audioSourceRef holds, reset the cursor to the
\* clock and setAvatarState(LISTENING).  The server answers only once the
\* connection is set up, that is after the promise of live.connect resolved.
OnMessageUpTo(limit, s, audio, interrupted, dur) ==
    /\ NoMicrotask
    /\ sessions[s].pc = "open"
    /\ sessions[s].resolved
    /\ audio \/ interrupted
    /\ audio => RoomToPlayUpTo(limit)
    /\ playTasks' = IF audio THEN Append(playTasks, NewTask(dur, TRUE, FALSE))
                    ELSE playTasks
    /\ IF interrupted
       THEN /\ sources' = StopSource(sources, audioSourceRef)
            /\ nextStartTime' = InterruptCursor(nextStartTime, now)
            /\ avatarState' = "listening"
       ELSE UNCHANGED <<sources, nextStartTime, avatarState>>
    /\ justStopped' = FALSE
    /\ UNCHANGED <<lastMessage, isConnected, isLoading, ctxState, now, audioSourceRef,
                   textPc, sessions, streamRef, inputProcessorRef, liveSessionRef,
                   captured, sent, closedSince>>

\* onclose: setIsConnected(false), setAvatarState(IDLE)
OnClose(s) ==
    /\ NoMicrotask
    /\ sessions[s].pc \in {"connecting", "open"}
    /\ isConnected' = FALSE
    /\ avatarState' = "idle"
    /\ sessions' = [sessions EXCEPT ![s].pc = "closed"]
    /\ justStopped' = FALSE
    /\ UNCHANGED <<lastMessage, isLoading, ctxState, now, nextStartTime, sources,
                   audioSourceRef, playTasks, textPc, streamRef, inputProcessorRef,
                   liveSessionRef, captured, sent, closedSince>>

\* onerror: set the error text, stopLiveSession()
OnError(s) ==
    /\ NoMicrotask
    /\ sessions[s].pc \in {"connecting", "open"}
    /\ stopLiveSession
    /\ UNCHANGED <<lastMessage, isLoading, ctxState, now, nextStartTime, sources,
                   audioSourceRef, playTasks, textPc, liveSessionRef, captured, sent>>

Tick == TickUpTo(MaxTime)

OnMessage(s, audio, interrupted, dur) == OnMessageUpTo(MaxSources, s, audio, interrupted, dur)

StartLive(susp) == StartLiveUpTo(MaxSessions, susp)

Capture(s) == CaptureUpTo(MaxFrames, s)

\* the whole engine
Next ==
    \/ Tick
    \/ PlayAudioSchedule
    \/ PlayAudioFails
    \/ ResumeDone
    \/ \E i \in 1..Len(sources) : OnEnded(i)
    \/ SubmitText
    \/ GenDone
    \/ TextFail
    \/ \E audio \in BOOLEAN, dur \in Durations, susp \in BOOLEAN : TtsDone(audio, dur, susp)
    \/ StopLive
    \/ \E susp \in BOOLEAN : StartLive(susp)
    \/ \E s \in SessIds : MicGranted(s)
    \/ \E s \in SessIds : MicDenied(s)
    \/ \E s \in SessIds : ConnectThrows(s)
    \/ \E s \in SessIds : OnOpen(s)
    \/ \E s \in SessIds : SessionResolve(s)
    \/ \E s \in SessIds : Capture(s)
    \/ \E s \in SessIds, audio \in BOOLEAN, interrupted \in BOOLEAN, dur \in Durations :
          OnMessage(s, audio, interrupted, dur)
    \/ \E s \in SessIds : OnClose(s)
    \/ \E s \in SessIds : OnError(s)

Spec == Init /\ [][Next]_vars

\* the live session's lifecycle and capture path while the server sends
\* nothing and no text is submitted, with room for a second session
NextCapture ==
    \/ StopLive
    \/ \E susp \in BOOLEAN : StartLiveUpTo(MaxCaptureSessions, susp)
    \/ \E s \in SessIds : MicGranted(s)
    \/ \E s \in SessIds : MicDenied(s)
    \/ \E s \in SessIds : ConnectThrows(s)
    \/ \E s \in SessIds : OnOpen(s)
    \/ \E s \in SessIds : SessionResolve(s)
    \/ \E s \in SessIds : CaptureUpTo(MaxCaptureFrames, s)
    \/ \E s \in SessIds : OnClose(s)
    \/ \E s \in SessIds : OnError(s)

SpecCapture == Init /\ [][NextCapture]_vars

\* one live session and the playback of what the server sends, while no text
\* is submitted and nothing is captured, with room for a third source
NextPlay ==
    \/ TickUpTo(MaxPlayTime)
    \/ PlayAudioSchedule
    \/ PlayAudioFails
    \/ ResumeDone
    \/ \E i \in 1..Len(sources) : OnEnded(i)
    \/ StopLive
    \/ \E susp \in BOOLEAN : StartLive(susp)
    \/ \E s \in SessIds : MicGranted(s)
    \/ \E s \in SessIds : OnOpen(s)
    \/ \E s \in SessIds : SessionResolve(s)
    \/ \E s \in SessIds, audio \in BOOLEAN, interrupted \in BOOLEAN, dur \in Durations :
          OnMessageUpTo(MaxPlaySources, s, audio, interrupted, dur)
    \/ \E s \in SessIds : OnClose(s)

SpecPlay == Init /\ [][NextPlay]_vars

\* one live session and its capture callback, called with every frame
NextEncode ==
    \/ \E susp \in BOOLEAN : StartLive(susp)
    \/ \E s \in SessIds : MicGranted(s)
    \/ \E s \in SessIds : OnOpen(s)
    \/ \E s \in SessIds : SessionResolve(s)
    \/ \E s \in SessIds, inputData \in Frames : CaptureFrame(MaxEncodeFrames, s, inputData)

SpecEncode == Init /\ [][NextEncode]_vars

\* the device time at which every source started so far has played out
RECURSIVE LatestEnd(_)
LatestEnd(n) ==
    IF n = 0 THEN 0
    ELSE Max(IF sources[n].stopped THEN 0 ELSE sources[n].start + sources[n].dur,
             LatestEnd(n - 1))

PlayedOutTime == Max(MaxFairTime, LatestEnd(Len(sources)))

\* text chat, one live session and the playback of both; nothing is captured
\* and every payload is decoded and started, so that the payloads delivered
\* are as many as the sources
NextFair ==
    \/ TickUpTo(PlayedOutTime)
    \/ PlayAudioSchedule
    \/ ResumeDone
    \/ \E i \in 1..Len(sources) : OnEnded(i)
    \/ SubmitText
    \/ GenDone
    \/ TextFail
    \/ \E audio \in BOOLEAN, dur \in Durations, susp \in BOOLEAN : TtsDone(audio, dur, susp)
    \/ StopLive
    \/ \E susp \in BOOLEAN : StartLive(susp)
    \/ \E s \in SessIds : MicGranted(s)
    \/ \E s \in SessIds : OnOpen(s)
    \/ \E s \in SessIds : SessionResolve(s)
    \/ \E s \in SessIds, audio \in BOOLEAN, interrupted \in BOOLEAN, dur \in Durations :
          OnMessage(s, audio, interrupted, dur)
    \/ \E s \in SessIds : OnClose(s)

\* what the event loop and the audio device guarantee: the clock of a running
\* context advances, a continuation behind a settled promise runs, every source
\* that has played out or was stopped raises its playback-ended event, and a
\* call to the text or TTS service returns or throws
Fairness ==
    /\ WF_vars(TickUpTo(PlayedOutTime))
    /\ WF_vars(PlayAudioSchedule)
    /\ \A i \in 1..MaxSources : WF_vars(i <= Len(sources) /\ OnEnded(i))
    /\ WF_vars(GenDone \/ TextFail)
    /\ WF_vars(TextFail \/ \E audio \in BOOLEAN, dur \in Durations, susp \in BOOLEAN :
                              TtsDone(audio, dur, susp))

SpecFair == Init /\ [][NextFair]_vars /\ Fairness

\* ======================= the claims =======================

\* a step of one of the live session's callbacks C1 names: an inbound message
\* or the playAudio call it made, the playback-ended event of a source the
\* session started, a capture callback
InboundStep == \E s \in SessIds, audio \in BOOLEAN, interrupted \in BOOLEAN, dur \in Durations :
                  OnMessage(s, audio, interrupted, dur)

LivePlayStep == /\ ~NoMicrotask
                /\ playTasks[NextDecode].live
                /\ PlayAudioSchedule

LiveEndedStep == \E i \in 1..Len(sources) : sources[i].live /\ OnEnded(i)

CaptureStep == \E s \in SessIds : Capture(s)

\* C1 (as claimed): once stopLiveSession has returned, and until the next
\* startLiveSession or text submission, no inbound-message, playback-ended or
\* capture callback changes SessionState.
C1_NoCallbackChangesStateAfterClose ==
    [][(closedSince /\ (InboundStep \/ LivePlayStep \/ LiveEndedStep \/ CaptureStep))
          => avatarState' = avatarState]_vars

\* a stopLiveSession call: a button, or onerror
StopStep == StopLive \/ \E s \in SessIds : OnError(s)

\* the microphone is released: no stream obtained from getUserMedia still has
\* live tracks, and no capture processor is still connected
MicReleased == \A s \in SessIds : ~sessions[s].trackLive /\ ~sessions[s].procConnected

\* C2 (as claimed): stopLiveSession, called in any state, leaves SessionState
\* Idle and the input device and capture processor released, and a second
\* consecutive call changes nothing.
C2_StopReleasesAndIsIdempotent ==
    [][StopStep => /\ avatarState' = "idle"
                   /\ streamRef' = 0 /\ inputProcessorRef' = 0
                   /\ MicReleased'
                   /\ (justStopped => UNCHANGED progVars)]_vars

\* C3 (as claimed): once stopLiveSession has returned, no frame of a session
\* started before it is handed to sendRealtimeInput.
C3_NoSendAfterStop ==
    [][\A k \in (Len(sent) + 1)..Len(sent') : ~sessions[sent'[k].sess].stopCalled]_vars

\* a step of onmessage that handles an interruption
InterruptStep == \E s \in SessIds, audio \in BOOLEAN, dur \in Durations :
                    OnMessage(s, audio, TRUE, dur)

\* C4 (as claimed): after the interruption handler returns, no source started
\* before it is playing or still to play: each one is stopped or has played out.
C4_InterruptDiscardsEverySource ==
    [][InterruptStep => \A i \in 1..Len(sources) :
                           sources'[i].stopped \/ now >= sources[i].start + sources[i].dur]_vars

\* a step of playAudio that starts a source
ScheduleStep == PlayAudioSchedule

LastSource == sources[Len(sources)]

\* C5: right after an interruption is handled the cursor equals the device
\* time, and (the clock never going back) every source started later starts
\* at or after the device time of its own scheduling, hence at or after the
\* interruption's.
C5_InterruptResetsCursor ==
    [][/\ InterruptStep => nextStartTime' = now'
       /\ ScheduleStep => LastSource'.start >= now
       /\ now' >= now]_vars

\* C5 witness: a source was cut off by an interruption, time has passed, and
\* a later source has been started
C5_Witness ==
    \E i, j \in 1..Len(sources) :
        /\ i < j
        /\ sources[i].stopped
        /\ sources[j].start > sources[i].start

\* C6: a schedule step starts the source at max(cursor, device time) and moves
\* the cursor to start + duration; so a source scheduled while the device time
\* has not passed the cursor left by the previous source starts exactly where
\* that one ends (and not before it starts), and one scheduled after the
\* cursor has been passed starts at the device time.
C6_GaplessScheduling ==
    [][ScheduleStep =>
          LET new == LastSource'
          IN /\ new.start = (IF nextStartTime >= now THEN nextStartTime ELSE now)
             /\ nextStartTime' = new.start + new.dur
             /\ (now > nextStartTime => new.start = now)
             /\ (/\ sources # <<>>
                 /\ nextStartTime = LastSource.start + LastSource.dur
                 /\ now <= nextStartTime)
                => /\ new.start = LastSource.start + LastSource.dur
                   /\ new.start >= LastSource.start]_vars

\* C6 witness: a second source queued behind a first one that is still playing
C6_Witness ==
    /\ Len(sources) = 2
    /\ sources[2].start = sources[1].start + sources[1].dur
    /\ now < sources[2].start
    /\ ~sources[1].stopped

\* a failed startLiveSession: getUserMedia rejected, or the connect call threw
FailedOpenStep == \E s \in SessIds : MicDenied(s) \/ ConnectThrows(s)

\* C7 (as claimed): when a failed open has finished, SessionState is Idle and
\* the session is reported as not connected.
C7_FailedOpenLeavesIdle ==
    [][FailedOpenStep => avatarState' = "idle" /\ ~isConnected']_vars

\* C8 (as claimed): after a failed open no microphone stream is held, no
\* capture processor is registered and no session handle is stored.
C8_FailedOpenLeavesNothing ==
    [][FailedOpenStep => /\ streamRef' = 0
                         /\ inputProcessorRef' = 0
                         /\ liveSessionRef' = 0
                         /\ \A s \in SessIds : ~sessions'[s].trackLive]_vars

\* the start button's step
OpenStep == \E susp \in BOOLEAN : StartLive(susp)

\* C9: in live mode, startLiveSession sets Listening; starting the source of an
\* audio payload sets Speaking; the playback-ended event of a live source, when
\* no other source is playing or queued, sets Listening.
C9_LiveScenario ==
    [][/\ OpenStep => avatarState' = "listening"
       /\ LivePlayStep => avatarState' = "speaking"
       /\ \A i \in 1..Len(sources) :
             (/\ sources[i].live
              /\ OnEnded(i)
              /\ \A j \in 1..Len(sources) : Finished(sources[j]))
             => avatarState' = "listening"]_vars

\* C9 witness: the one source of a live session has played out, its
\* playback-ended event has fired, and the state is back to Listening
C9_Witness ==
    /\ Len(sources) = 1
    /\ sources[1].live /\ sources[1].ended /\ ~sources[1].stopped
    /\ playTasks = <<>>
    /\ avatarState = "listening"

TextPlayStep == /\ ~NoMicrotask
                /\ ~playTasks[NextDecode].live
                /\ PlayAudioSchedule

TtsStep == \E audio \in BOOLEAN, dur \in Durations, susp \in BOOLEAN : TtsDone(audio, dur, susp)

TextEndedStep == \E i \in 1..Len(sources) : ~sources[i].live /\ OnEnded(i)

HoldingStream == {s \in SessIds : sessions[s].trackLive}

HoldingProcessor == {s \in SessIds : sessions[s].procConnected}

HoldingConnection == {s \in SessIds : sessions[s].pc \in {"connecting", "open"}}

\* C11 (as claimed): at most one live session is alive at any time: never more
\* than one held microphone stream, one capture processor, one connection.
C11_AtMostOneSessionAlive ==
    /\ Cardinality(HoldingStream) <= 1
    /\ Cardinality(HoldingProcessor) <= 1
    /\ Cardinality(HoldingConnection) <= 1

\* C12 (as claimed): the start times of the live session's sources follow the
\* order in which their payloads arrived (sources holds them in the order they
\* were started, which C12_ArrivalOrder shows to be the arrival order).
C12_StartTimesInArrivalOrder ==
    \A i, j \in 1..Len(sources) :
        (i < j /\ sources[i].live /\ sources[j].live)
        => sources[i].start <= sources[j].start

\* C12 (amended): the payload whose source is started is the earliest
\* delivered one not started yet (no playAudio call of an earlier payload is
\* still waiting), whatever the interleaving of the resume and decode steps;
\* its source starts at or after the cursor, hence at or after the end of every
\* earlier source the cursor still covers.  (An interruption or the reset of a
\* text submission moves the cursor back to the device time: a payload started
\* after it may start before an earlier one that had been queued ahead.)
C12_ArrivalOrder ==
    [][LivePlayStep =>
          /\ \A j \in 1..(NextDecode - 1) : ~playTasks[j].live
          /\ sources' = Append(sources, LastSource')
          /\ LastSource'.start >= nextStartTime
          /\ \A i \in 1..Len(sources) :
                sources[i].start + sources[i].dur <= nextStartTime
                => sources[i].start + sources[i].dur <= LastSource'.start]_vars

\* C12 witness: two payloads were delivered one after the other and both
\* sources have been started, the second right behind the first
C12_Witness ==
    /\ Len(sources) >= 2
    /\ sources[1].live /\ sources[2].live
    /\ sources[1].start = 0 /\ now = 0
    /\ sources[2].start = sources[1].dur
    /\ playTasks = <<>>

\* C13 (as claimed): outbound audio messages are sent in capture order: the
\* frames handed to sendRealtimeInput so far appear in the order in which they
\* were captured, none of them twice.
C13_SentInCaptureOrder ==
    \A i, j \in 1..Len(sent) : i < j => sent[i].frame < sent[j].frame

\* C14 (as claimed): a close signal or a transport error, in any state, leaves
\* SessionState Idle and the session not connected, and stops the capture of
\* the session it closes (its processor sends no further frame).
C14_CloseTearsDown ==
    [][\A s \in SessIds :
          (OnClose(s) \/ OnError(s))
          => /\ avatarState' = "idle"
             /\ ~isConnected'
             /\ ~sessions'[s].procConnected]_vars

\* C15 (as claimed): the frames waiting to be sent are held in a bounded
\* queue: whatever bound is configured (here any bound below the number of
\* frames the capture callback is called with), a session's queue never holds
\* more, a capture callback beyond it being refused.
C15_PendingQueueBounded ==
    \E bound \in 1..(MaxCaptureFrames - 1) :
        \A s \in SessIds : Len(sessions[s].pending) <= bound

\* C20 (as claimed): a capture callback called with the samples x / SampleDen in
\* [-1, 1] produces for each the 16-bit value round(s * 32767) (rounding
\* half up), kept within -32768 .. 32767.
C20_EncodingSaturates ==
    [][\A s \in SessIds, inputData \in Frames :
          CaptureFrame(MaxEncodeFrames, s, inputData)
          => LET entry == IF sessions[s].resolved
                          THEN sent'[Len(sent')]
                          ELSE sessions'[s].pending[Len(sessions'[s].pending)]
                 rounded(x) == (2 * x * 32767 + SampleDen) \div (2 * SampleDen)
                 clamped(v) == IF v > 32767 THEN 32767
                               ELSE IF v < 0 - 32768 THEN 0 - 32768 ELSE v
             IN \A i \in 1..FrameLen : entry.data[i] = clamped(rounded(inputData[i]))]_vars

\* handleSendMessage finishes: on success, in the `finally` behind playAudio or
\* behind a TTS answer without audio; on failure, in catch and finally
SubmissionDone == textPc # "none" /\ textPc' = "none"

\* C16: when the text generation call or the TTS call fails, handleSendMessage
\* finishes with SessionState Idle, the loading flag cleared and the fallback
\* message appended last; and however it finishes, the loading flag is false.
C16_FailureLeavesIdle ==
    [][/\ TextFail => /\ SubmissionDone
                      /\ avatarState' = "idle"
                      /\ ~isLoading'
                      /\ lastMessage' = "fallback"
       /\ SubmissionDone => ~isLoading'
       /\ (isLoading /\ ~isLoading') => SubmissionDone]_vars

\* C16 witness: a submission has failed and handleSendMessage has finished
C16_Witness ==
    /\ lastMessage = "fallback"
    /\ textPc = "none"
    /\ ~isLoading
    /\ avatarState = "idle"

\* C17 (as claimed): the cursor never decreases, whatever the operation.
C17_CursorNeverDecreases ==
    [][nextStartTime' >= nextStartTime]_vars

\* the reset of the cursor in handleSendMessage, once the TTS call has
\* returned audio
TextResetStep == \E dur \in Durations, susp \in BOOLEAN : TtsDone(TRUE, dur, susp)

\* C17 (amended): a schedule step never decreases the cursor (it moves it to
\* max(cursor, device time) + duration); the cursor decreases only in the
\* interruption handler and in the reset of a text submission, which set it to
\* the device time, the clock itself never going back.
C17_CursorDecreasesOnlyOnReset ==
    [][/\ ScheduleStep => /\ nextStartTime' >= nextStartTime
                          /\ nextStartTime' = Max(nextStartTime, now) + LastSource'.dur
       /\ nextStartTime' < nextStartTime => /\ InterruptStep \/ TextResetStep
                                            /\ nextStartTime' = now
       /\ now' >= now]_vars

\* C17 witness: the cursor has been reset below the end of the last source
\* started
C17_Witness ==
    /\ sources # <<>>
    /\ nextStartTime < LastSource.start + LastSource.dur

\* C18 (as claimed): the cursor changes only in the scheduling step of
\* playAudio and in the interruption handler; a text submission, open, close,
\* the capture, close, error and playback-ended callbacks leave it unchanged.
C18_SingleWriter ==
    [][nextStartTime' # nextStartTime => (ScheduleStep \/ InterruptStep)]_vars

\* C19: a playback-ended event changes SessionState only when the device time
\* has reached the cursor less Eps (0.1 s); while more audio is queued beyond
\* that it leaves the state as it is (Speaking stays Speaking); and when it
\* reverts, the new state is Listening for a live source and Idle for the
\* source of a text submission.
C19_NoFlapping ==
    [][\A i \in 1..Len(sources) :
          OnEnded(i)
          => /\ avatarState' # avatarState => now >= nextStartTime - Eps
             /\ now < nextStartTime - Eps
                => /\ avatarState' = avatarState
                   /\ avatarState = "speaking" => avatarState' = "speaking"
             /\ now >= nextStartTime - Eps
                => avatarState' = (IF sources[i].live THEN "listening" ELSE "idle")]_vars

\* C19 witness: the first of two back-to-back sources has played out and
\* raised its playback-ended event, the second is queued more than Eps ahead,
\* and the state is still Speaking
C19_Witness ==
    /\ Len(sources) = 2
    /\ sources[1].ended /\ ~sources[1].stopped
    /\ ~sources[2].ended /\ ~sources[2].stopped
    /\ sources[2].start = sources[1].start + sources[1].dur
    /\ now < nextStartTime - Eps
    /\ avatarState = "speaking"

\* C21 (as claimed): SessionState Listening implies that a live session is
\* connected.
C21_ListeningImpliesConnected ==
    avatarState = "listening" => isConnected

\* the source is scheduled, not stopped, and its interval [start, start + dur)
\* holds the time t
Covers(src, t) == ~src.stopped /\ src.start <= t /\ t < src.start + src.dur

\* C22 (as claimed): the intervals [start, start + dur) of any two sources that
\* were scheduled and not stopped are disjoint.
C22_IntervalsNeverOverlap ==
    \A i, j \in 1..Len(sources) :
        (i < j /\ ~sources[i].stopped /\ ~sources[j].stopped)
        => \/ sources[i].start + sources[i].dur <= sources[j].start
           \/ sources[j].start + sources[j].dur <= sources[i].start

\* a live session is open: its connection is, and the engine says connected
SessionOpen == isConnected /\ \E s \in SessIds : sessions[s].pc = "open"

\* C23 (as claimed): in an open live session, while the interval of some
\* scheduled and not stopped source holds the device time, SessionState is
\* Speaking.
C23_SpeakingWhileAudible ==
    (SessionOpen /\ \E i \in 1..Len(sources) : Covers(sources[i], now))
    => avatarState = "speaking"

\* C24: Speaking is never stuck: whenever SessionState is Speaking, it
\* eventually becomes Listening or Idle (every source that has played out or
\* was stopped raising its playback-ended event, and only finitely many
\* payloads being delivered).
C24_SpeakingNeverStuck ==
    (avatarState = "speaking") ~> (avatarState \in {"listening", "idle"})

\* C24 witness: two sources of a live session were queued back to back, the
\* clock has run past MaxFairTime to the end of the second, every
\* playback-ended event has fired, and the state has left Speaking for
\* Listening
C24_Witness ==
    /\ Len(sources) = 2
    /\ \A i \in 1..2 : sources[i].live /\ sources[i].ended /\ ~sources[i].stopped
    /\ sources[2].start = sources[1].start + sources[1].dur
    /\ now = LatestEnd(2) /\ now > MaxFairTime
    /\ playTasks = <<>>
    /\ avatarState = "listening"
====
